---------------------------- MODULE Spec2Model ----------------------------
(***************************************************************************)
(* Model of src/utils/espOtaSocket.js: the device/dashboard WebSocket      *)
(* registry and the chunked firmware (OTA) transfer.                       *)
(*                                                                         *)
(* Every task of the Node.js event loop (a connection event, an inbound    *)
(* message, a timer callback, the continuation of an await) is one atomic  *)
(* action.  outbox[c] is the sequence of frames ws.send() has written to   *)
(* connection c.                                                           *)
(***************************************************************************)
EXTENDS Integers, Sequences, FiniteSets, TLC

\* ------------------------------------------------------------------ bounds
MaxConns == 2       \* connections accepted in a run of the whole system
MaxMsgs == 2        \* inbound device messages handled in a run of the whole system
MaxTransfers == 1   \* transfers started in a run of the whole system
MaxChunks == 2      \* firmware artifacts span up to MaxChunks + 1 chunks

\* --------------------------------------------------------------- constants
chunkSize == 2048   \* const chunkSize = 2048
startChunkDivisor == 2048   \* Math.ceil(firmwareSize / 2048) in ota_start

\* the runs about the registry alone accept one connection more
Conns == 1..(MaxConns + 1)

Null == "<null>"            \* let deviceId = null
Undefined == "<undefined>"  \* an absent property
NoTime == 0 - 1             \* lastHeartbeat not set

\* deviceId values a register message may carry (Undefined: field absent)
DeviceIds == {"d1", "d2", ""}
RegisterIds == DeviceIds \cup {Undefined}
VersionIds == {"v1"}

\* JavaScript truthiness of a deviceId / currentVersionId value
Truthy(x) == x \notin {Null, Undefined, ""}

\* the artifact a path resolves to: absent, or a file of `size` bytes
NoFile == [exists |-> FALSE, size |-> 0]
FileSizes ==
    {k * chunkSize + r : k \in 0..MaxChunks, r \in {0, 1}} \cup {chunkSize - 1}
Files == {NoFile} \cup {[exists |-> TRUE, size |-> s] : s \in FileSizes}

\* the artifacts of the runs that are about the registry, not about the transfer
SmallFiles == {NoFile, [exists |-> TRUE, size |-> 1]}

VARIABLES
    readyState,        \* ws.readyState of each connection ("NONE": not accepted yet)
    isDashboard,       \* req.url.includes("admin=true"), fixed at accept
    deviceId,          \* the closure variable `deviceId` of each device connection
    connectedDevices,  \* the Map, as its entries in insertion order
    dashboardClients,  \* the Set of dashboard sockets
    outbox,            \* frames written to each connection, in order
    transfers,         \* one record per started sendOTAUpdate (offset, pending timer)
    awaiting,          \* per connection: ota_complete handlers suspended in await
    dbCalls,           \* invocations of deviceModel.findOneAndUpdate, in order
    closedSends,       \* ws.send() calls made on a connection that was not OPEN
    now                \* clock: number of messages handled (new Date())

vars == <<readyState, isDashboard, deviceId, connectedDevices, dashboardClients,
          outbox, transfers, awaiting, dbCalls, closedSends, now>>

\* ------------------------------------------------------------ Map helpers
\* connectedDevices.has(key)
MapHas(map, key) == \E i \in 1..Len(map) : map[i].key = key

MapIndex(map, key) == CHOOSE i \in 1..Len(map) : map[i].key = key

\* connectedDevices.get(key), for a key the map holds
MapGet(map, key) == map[MapIndex(map, key)]

\* a Map.set that always inserts (used to test the claims about re-registration)
MapSetAppend(map, key, val) == Append(map, [key |-> key, val |-> val])

\* connectedDevices.set(key, val): replace the value in place, else insert last
MapSet(map, key, val) ==
    IF MapHas(map, key)
    THEN [map EXCEPT ![MapIndex(map, key)] = [key |-> key, val |-> val]]
    ELSE Append(map, [key |-> key, val |-> val])

\* connectedDevices.delete(key)
MapDelete(map, key) == SelectSeq(map, LAMBDA e : e.key # key)

\* -------------------------------------------------------------- sending
IsOpen(c) == readyState[c] = "OPEN"

\* ws.send(frame): written when the socket is OPEN, dropped otherwise
SendTo(ob, ws, frame) ==
    IF IsOpen(ws) THEN [ob EXCEPT ![ws] = Append(@, frame)] ELSE ob

\* record of the ws.send() calls made on a socket that was not OPEN
Attempt(cs, ws, frame) ==
    IF IsOpen(ws) THEN cs ELSE cs \cup {<<ws, frame.type>>}

\* a broadcast without the readyState test
broadcastToAll(ob, payload) ==
    [c \in Conns |-> IF c \in dashboardClients THEN Append(ob[c], payload) ELSE ob[c]]

\* broadcastToDashboards(payload): write to every dashboard whose socket is OPEN
broadcastToDashboards(ob, payload) ==
    [c \in Conns |->
        IF c \in dashboardClients /\ readyState[c] = "OPEN"
        THEN Append(ob[c], payload)
        ELSE ob[c]]

\* req.socket.remoteAddress
RemoteAddress(c) == c

Init ==
    /\ readyState = [c \in Conns |-> "NONE"]
    /\ isDashboard = [c \in Conns |-> FALSE]
    /\ deviceId = [c \in Conns |-> Null]
    /\ connectedDevices = <<>>
    /\ dashboardClients = {}
    /\ outbox = [c \in Conns |-> <<>>]
    /\ transfers = <<>>
    /\ awaiting = [c \in Conns |-> 0]
    /\ dbCalls = <<>>
    /\ closedSends = {}
    /\ now = 0

\* the next connection handed over by the acceptor
NextConn(c) ==
    /\ readyState[c] = "NONE"
    /\ \A b \in Conns : b < c => readyState[b] # "NONE"

\* a dashboard branch whose snapshot lists only the sessions whose socket is open
AcceptDashboardOpenOnly(c) ==
    /\ NextConn(c)
    /\ readyState' = [readyState EXCEPT ![c] = "OPEN"]
    /\ isDashboard' = [isDashboard EXCEPT ![c] = TRUE]
    /\ dashboardClients' = dashboardClients \cup {c}
    /\ outbox' = [outbox EXCEPT ![c] = Append(@,
           [type |-> "device_list",
            devices |->
                LET live == SelectSeq(connectedDevices,
                                      LAMBDA e : readyState[e.val.ws] = "OPEN")
                IN  [i \in 1..Len(live) |->
                        [deviceId |-> live[i].key,
                         ip |-> live[i].val.ip,
                         status |-> live[i].val.status,
                         connectedAt |-> live[i].val.connectedAt]]])]
    /\ UNCHANGED <<deviceId, connectedDevices, transfers, awaiting,
                   dbCalls, closedSends, now>>

\* wss.on("connection") with admin=true in the url
AcceptDashboard(c) ==
    /\ NextConn(c)
    /\ readyState' = [readyState EXCEPT ![c] = "OPEN"]
    /\ isDashboard' = [isDashboard EXCEPT ![c] = TRUE]
    /\ dashboardClients' = dashboardClients \cup {c}
    /\ outbox' = [outbox EXCEPT ![c] = Append(@,
           [type |-> "device_list",
            devices |-> [i \in 1..Len(connectedDevices) |->
                [deviceId |-> connectedDevices[i].key,
                 ip |-> connectedDevices[i].val.ip,
                 status |-> connectedDevices[i].val.status,
                 connectedAt |-> connectedDevices[i].val.connectedAt]]])]
    /\ UNCHANGED <<deviceId, connectedDevices, transfers, awaiting,
                   dbCalls, closedSends, now>>

\* wss.on("connection") of a device
AcceptDevice(c) ==
    /\ NextConn(c)
    /\ readyState' = [readyState EXCEPT ![c] = "OPEN"]
    /\ isDashboard' = [isDashboard EXCEPT ![c] = FALSE]
    /\ deviceId' = [deviceId EXCEPT ![c] = Null]
    /\ UNCHANGED <<connectedDevices, dashboardClients, outbox, transfers,
                   awaiting, dbCalls, closedSends, now>>

\* ------------------------------------------------- firmware transfer engine
\* Math.ceil(a / b) for a >= 0, b > 0
Ceil(a, b) == (a + b - 1) \div b

Min(a, b) == IF a < b THEN a ELSE b

\* firmwareBuffer.slice(start, end).length: both ends are clamped to the buffer
BufferSliceLen(size, start, end) ==
    LET s == Min(start, size)
        e == Min(end, size)
    IN  IF e > s THEN e - s ELSE 0

\* chunk.toString("base64").length for a chunk of n bytes
Base64Len(n) == 4 * ((n + 2) \div 3)

\* the ota_start frame of a transfer of firmwareSize bytes
OtaStartFrame(firmwareSize) ==
    [type |-> "ota_start", size |-> firmwareSize,
     chunks |-> Ceil(firmwareSize, startChunkDivisor)]

\* the ota_chunk frame sendChunk builds at `offset`
OtaChunkFrame(firmwareSize, offset) ==
    [type |-> "ota_chunk", offset |-> offset,
     bytes |-> BufferSliceLen(firmwareSize, offset, offset + chunkSize),
     data |-> Base64Len(BufferSliceLen(firmwareSize, offset, offset + chunkSize)),
     totalSize |-> firmwareSize]

OtaEndFrame == [type |-> "ota_end", status |-> "complete"]

\* a sendOTAUpdate whose missing-file branch does not return
sendOTAUpdateNoReturn(ws, file, ob) ==
    /\ outbox' = SendTo(
           IF file.exists THEN ob
           ELSE SendTo(ob, ws, [type |-> "ota_error",
                                message |-> "Firmware file not found"]),
           ws, OtaStartFrame(file.size))
    /\ closedSends' = Attempt(closedSends, ws, [type |-> "ota_start"])
    /\ transfers' = Append(transfers,
           [ws |-> ws, firmwareSize |-> file.size, offset |-> 0,
            timer |-> TRUE, ended |-> FALSE,
            sent |-> IF IsOpen(ws) THEN <<OtaStartFrame(file.size)>> ELSE <<>>])

\* sendOTAUpdate(ws, deviceId, customFirmwarePath), `file` being what the path
\* resolves to; `ob` is the outbox the caller has built so far
sendOTAUpdate(ws, file, ob) ==
    IF ~file.exists
    THEN /\ outbox' = SendTo(ob, ws, [type |-> "ota_error",
                                     message |-> "Firmware file not found"])
         /\ closedSends' = Attempt(closedSends, ws, [type |-> "ota_error"])
         /\ UNCHANGED transfers
    ELSE /\ outbox' = SendTo(ob, ws, OtaStartFrame(file.size))
         /\ closedSends' = Attempt(closedSends, ws, [type |-> "ota_start"])
         /\ transfers' = Append(transfers,
                [ws |-> ws, firmwareSize |-> file.size, offset |-> 0,
                 timer |-> TRUE, ended |-> FALSE,
                 sent |-> IF IsOpen(ws) THEN <<OtaStartFrame(file.size)>> ELSE <<>>])

\* a test that ends the transfer before the chunk holding the last byte
sendChunkHasMoreEarly(offset, firmwareSize) == offset + chunkSize < firmwareSize

\* the test of sendChunk off by one
sendChunkHasMoreInclusive(offset, firmwareSize) == offset <= firmwareSize

\* the test `offset < firmwareSize` of sendChunk
sendChunkHasMore(offset, firmwareSize) == offset < firmwareSize

\* a sendChunk that re-arms its timer when the socket is not open
sendChunkRetry(t) ==
    LET tr == transfers[t] IN
    /\ tr.timer
    /\ IF sendChunkHasMore(tr.offset, tr.firmwareSize)
       THEN IF IsOpen(tr.ws)
            THEN /\ outbox' = SendTo(outbox, tr.ws,
                                     OtaChunkFrame(tr.firmwareSize, tr.offset))
                 /\ transfers' = [transfers EXCEPT ![t] =
                        [@ EXCEPT !.offset = tr.offset + chunkSize,
                                  !.sent = Append(@, OtaChunkFrame(tr.firmwareSize,
                                                                   tr.offset))]]
                 /\ UNCHANGED closedSends
            ELSE UNCHANGED <<transfers, outbox, closedSends>>
       ELSE /\ outbox' = SendTo(outbox, tr.ws, OtaEndFrame)
            /\ closedSends' = Attempt(closedSends, tr.ws, OtaEndFrame)
            /\ transfers' = [transfers EXCEPT ![t] =
                   [@ EXCEPT !.timer = FALSE, !.ended = TRUE,
                             !.sent = IF IsOpen(tr.ws) THEN Append(@, OtaEndFrame)
                                      ELSE @]]
    /\ UNCHANGED <<readyState, isDashboard, deviceId, connectedDevices,
                   dashboardClients, awaiting, dbCalls, now>>

\* sendChunk, run by the timer of transfer t
sendChunk(t) ==
    LET tr == transfers[t] IN
    /\ tr.timer
    /\ IF sendChunkHasMore(tr.offset, tr.firmwareSize)
       THEN IF IsOpen(tr.ws)
            THEN /\ outbox' = SendTo(outbox, tr.ws,
                                     OtaChunkFrame(tr.firmwareSize, tr.offset))
                 /\ transfers' = [transfers EXCEPT ![t] =
                        [@ EXCEPT !.offset = tr.offset + chunkSize,
                                  !.sent = Append(@, OtaChunkFrame(tr.firmwareSize,
                                                                   tr.offset))]]
                 /\ UNCHANGED closedSends
            ELSE /\ transfers' = [transfers EXCEPT ![t].timer = FALSE]
                 /\ UNCHANGED <<outbox, closedSends>>
       ELSE /\ outbox' = SendTo(outbox, tr.ws, OtaEndFrame)
            /\ closedSends' = Attempt(closedSends, tr.ws, OtaEndFrame)
            /\ transfers' = [transfers EXCEPT ![t] =
                   [@ EXCEPT !.timer = FALSE, !.ended = TRUE,
                             !.sent = IF IsOpen(tr.ws) THEN Append(@, OtaEndFrame)
                                      ELSE @]]
    /\ UNCHANGED <<readyState, isDashboard, deviceId, connectedDevices,
                   dashboardClients, awaiting, dbCalls, now>>

\* ---------------------------------------------------- ws.on("message", ...)
\* a message event is delivered to a device socket that is OPEN
Receives(c) ==
    /\ readyState[c] = "OPEN"
    /\ ~isDashboard[c]
    /\ now' = now + 1

\* the session object a register message stores
NewSession(c, t) ==
    [ws |-> c, ip |-> RemoteAddress(c), connectedAt |-> t, status |-> "connected",
     currentVersionId |-> Undefined, lastHeartbeat |-> NoTime]

\* data.type === "register"; id is data.deviceId
HandleRegister(c, id) ==
    /\ Receives(c)
    /\ deviceId' = [deviceId EXCEPT ![c] = id]
    /\ connectedDevices' = MapSet(connectedDevices, id, NewSession(c, now + 1))
    /\ outbox' = SendTo(
           broadcastToDashboards(outbox,
               [type |-> "device_connected", deviceId |-> id,
                ip |-> RemoteAddress(c), time |-> now + 1]),
           c, [type |-> "registered", status |-> "success"])
    /\ UNCHANGED <<readyState, isDashboard, dashboardClients, transfers,
                   awaiting, dbCalls, closedSends>>

\* data.type === "ota_request"; f is what FIRMWARE_PATH resolves to at that moment
HandleOtaRequest(c, f) ==
    /\ Receives(c)
    /\ sendOTAUpdate(c, f, outbox)
    /\ UNCHANGED <<readyState, isDashboard, deviceId, connectedDevices,
                   dashboardClients, awaiting, dbCalls>>

\* data.type === "ota_progress"
HandleOtaProgress(c, progress) ==
    /\ Receives(c)
    /\ outbox' = broadcastToDashboards(outbox,
           [type |-> "ota_progress", deviceId |-> deviceId[c], progress |-> progress])
    /\ UNCHANGED <<readyState, isDashboard, deviceId, connectedDevices,
                   dashboardClients, transfers, awaiting, dbCalls,
                   closedSends>>

\* connectedDevices.has(deviceId) && connectedDevices.get(deviceId).currentVersionId
HasPendingVersion(c) ==
    /\ MapHas(connectedDevices, deviceId[c])
    /\ Truthy(MapGet(connectedDevices, deviceId[c]).val.currentVersionId)

\* the tail of the ota_complete branch: broadcast ota_result, acknowledge
OtaCompleteTail(c) ==
    /\ outbox' = SendTo(
           broadcastToDashboards(outbox,
               [type |-> "ota_result", deviceId |-> deviceId[c], status |-> "pass"]),
           c, [type |-> "ota_ack", status |-> "success"])
    /\ closedSends' = Attempt(closedSends, c, [type |-> "ota_ack"])

\* an ota_complete branch that updates the record whatever the session holds
HandleOtaCompleteAlways(c) ==
    /\ Receives(c)
    /\ dbCalls' = Append(dbCalls, [deviceId |-> deviceId[c], versionId |-> Undefined])
    /\ awaiting' = [awaiting EXCEPT ![c] = @ + 1]
    /\ UNCHANGED <<readyState, isDashboard, deviceId, connectedDevices,
                   dashboardClients, outbox, transfers, closedSends>>

\* data.type === "ota_complete", up to the await (or to the end, without one)
HandleOtaComplete(c) ==
    /\ Receives(c)
    /\ IF HasPendingVersion(c)
       THEN /\ dbCalls' = Append(dbCalls,
                   [deviceId |-> deviceId[c],
                    versionId |-> MapGet(connectedDevices,
                                         deviceId[c]).val.currentVersionId])
            /\ awaiting' = [awaiting EXCEPT ![c] = @ + 1]
            /\ UNCHANGED <<outbox, closedSends>>
       ELSE /\ OtaCompleteTail(c)
            /\ UNCHANGED <<dbCalls, awaiting>>
    /\ UNCHANGED <<readyState, isDashboard, deviceId, connectedDevices,
                   dashboardClients, transfers>>

\* findOneAndUpdate resolved (record or null): the handler resumes after the await
ResumeOtaComplete(c) ==
    /\ awaiting[c] > 0
    /\ awaiting' = [awaiting EXCEPT ![c] = @ - 1]
    /\ OtaCompleteTail(c)
    /\ UNCHANGED <<readyState, isDashboard, deviceId, connectedDevices,
                   dashboardClients, transfers, dbCalls, now>>

\* findOneAndUpdate rejected: the catch block logs and the handler ends
RejectOtaComplete(c) ==
    /\ awaiting[c] > 0
    /\ awaiting' = [awaiting EXCEPT ![c] = @ - 1]
    /\ UNCHANGED <<readyState, isDashboard, deviceId, connectedDevices,
                   dashboardClients, outbox, transfers, dbCalls,
                   closedSends, now>>

\* an ota_error branch that records the pending version all the same
HandleOtaErrorPersist(c, message) ==
    /\ Receives(c)
    /\ outbox' = broadcastToDashboards(outbox,
           [type |-> "ota_result", deviceId |-> deviceId[c], status |-> "fail",
            message |-> message])
    /\ dbCalls' = Append(dbCalls, [deviceId |-> deviceId[c], versionId |-> Undefined])
    /\ UNCHANGED <<readyState, isDashboard, deviceId, connectedDevices,
                   dashboardClients, transfers, awaiting, closedSends>>

\* data.type === "ota_error"
HandleOtaError(c, message) ==
    /\ Receives(c)
    /\ outbox' = broadcastToDashboards(outbox,
           [type |-> "ota_result", deviceId |-> deviceId[c], status |-> "fail",
            message |-> message])
    /\ UNCHANGED <<readyState, isDashboard, deviceId, connectedDevices,
                   dashboardClients, transfers, awaiting, dbCalls,
                   closedSends>>

\* a heartbeat branch without the `deviceId && connectedDevices.has(deviceId)`
\* guard: connectedDevices.get(deviceId) is undefined for an unknown deviceId,
\* the assignment throws into the catch block and the reply is never sent
HandleHeartbeatNoGuard(c) ==
    /\ Receives(c)
    /\ IF MapHas(connectedDevices, deviceId[c])
       THEN /\ connectedDevices' =
                   [connectedDevices EXCEPT
                       ![MapIndex(connectedDevices, deviceId[c])].val.lastHeartbeat =
                           now + 1]
            /\ outbox' = SendTo(outbox, c, [type |-> "heartbeat_ack"])
       ELSE UNCHANGED <<connectedDevices, outbox>>
    /\ UNCHANGED <<readyState, isDashboard, deviceId, dashboardClients,
                   transfers, awaiting, dbCalls, closedSends>>

\* data.type === "heartbeat"
HandleHeartbeat(c) ==
    /\ Receives(c)
    /\ connectedDevices' =
           IF Truthy(deviceId[c]) /\ MapHas(connectedDevices, deviceId[c])
           THEN [connectedDevices EXCEPT
                    ![MapIndex(connectedDevices, deviceId[c])].val.lastHeartbeat =
                        now + 1]
           ELSE connectedDevices
    /\ outbox' = SendTo(outbox, c, [type |-> "heartbeat_ack"])
    /\ UNCHANGED <<readyState, isDashboard, deviceId, dashboardClients,                    transfers, awaiting, dbCalls, closedSends>>

\* a frame that matches no branch ("unknown") or makes JSON.parse / data.type
\* throw into the catch block ("malformed")
HandleDropped(c, kind) ==
    /\ Receives(c)
    /\ kind \in {"unknown", "malformed"}
    /\ UNCHANGED <<readyState, isDashboard, deviceId, connectedDevices,
                   dashboardClients, outbox, transfers, awaiting, dbCalls,
                   closedSends>>

\* ------------------------------------------------------ connection lifecycle
\* the closing handshake starts (close frame seen): readyState leaves OPEN and
\* the "close" event is still to come
BeginClose(c) ==
    /\ readyState[c] = "OPEN"
    /\ readyState' = [readyState EXCEPT ![c] = "CLOSING"]
    /\ UNCHANGED <<isDashboard, deviceId, connectedDevices, dashboardClients, outbox,
                   transfers, awaiting, dbCalls, closedSends, now>>

\* ws.on("close") of a dashboard: dashboardClients.delete(ws)
CloseDashboard(c) ==
    /\ readyState[c] \in {"OPEN", "CLOSING"}
    /\ isDashboard[c]
    /\ readyState' = [readyState EXCEPT ![c] = "CLOSED"]
    /\ dashboardClients' = dashboardClients \ {c}
    /\ UNCHANGED <<isDashboard, deviceId, connectedDevices, outbox,                    transfers, awaiting, dbCalls, closedSends, now>>

\* ws.on("close") of a device
CloseDevice(c) ==
    /\ readyState[c] \in {"OPEN", "CLOSING"}
    /\ ~isDashboard[c]
    /\ readyState' = [readyState EXCEPT ![c] = "CLOSED"]
    /\ IF Truthy(deviceId[c])
       THEN /\ connectedDevices' = MapDelete(connectedDevices, deviceId[c])
            /\ outbox' = broadcastToDashboards(outbox,
                   [type |-> "device_disconnected", deviceId |-> deviceId[c]])
       ELSE UNCHANGED <<connectedDevices, outbox>>
    /\ UNCHANGED <<isDashboard, deviceId, dashboardClients, transfers,
                   awaiting, dbCalls, closedSends, now>>

\* ws.on("error") of a device; the socket is closing when the event is emitted
\* and its "close" event follows
ErrorDevice(c) ==
    /\ readyState[c] = "OPEN"
    /\ ~isDashboard[c]
    /\ readyState' = [readyState EXCEPT ![c] = "CLOSING"]
    /\ connectedDevices' =
           IF Truthy(deviceId[c]) THEN MapDelete(connectedDevices, deviceId[c])
           ELSE connectedDevices
    /\ UNCHANGED <<isDashboard, deviceId, dashboardClients, outbox,                    transfers, awaiting, dbCalls, closedSends, now>>

\* ------------------------------------------------------------- environment
\* a push started from outside this file through the exported connectedDevices
\* and sendOTAUpdate: the pending version is set when the transfer starts
AdminPush(d, v, f) ==
    /\ MapHas(connectedDevices, d)
    /\ f.exists
    /\ connectedDevices' =
           [connectedDevices EXCEPT
               ![MapIndex(connectedDevices, d)].val.currentVersionId = v]
    /\ sendOTAUpdate(MapGet(connectedDevices, d).val.ws, f, outbox)
    /\ UNCHANGED <<readyState, isDashboard, deviceId, dashboardClients,                    awaiting, dbCalls, now>>

\* ---------------------------------------------------------- specifications
\* The whole system: every task of the event loop, with at most MaxConns
\* connections, MaxMsgs messages and MaxTransfers transfers of a small artifact.
Next ==
    \/ \E c \in 1..MaxConns : AcceptDashboard(c)
    \/ \E c \in 1..MaxConns : AcceptDevice(c)
    \/ \E c \in Conns, id \in RegisterIds : now < MaxMsgs /\ HandleRegister(c, id)
    \/ \E c \in Conns, f \in SmallFiles :
          /\ now < MaxMsgs
          /\ f.exists => Len(transfers) < MaxTransfers
          /\ HandleOtaRequest(c, f)
    \/ \E c \in Conns : now < MaxMsgs /\ HandleOtaProgress(c, 50)
    \/ \E c \in Conns : now < MaxMsgs /\ HandleOtaComplete(c)
    \/ \E c \in Conns : ResumeOtaComplete(c)
    \/ \E c \in Conns : RejectOtaComplete(c)
    \/ \E c \in Conns : now < MaxMsgs /\ HandleOtaError(c, "failed")
    \/ \E c \in Conns : now < MaxMsgs /\ HandleHeartbeat(c)
    \/ \E c \in Conns, kind \in {"unknown", "malformed"} :
          now < MaxMsgs /\ HandleDropped(c, kind)
    \/ \E t \in 1..Len(transfers) : sendChunk(t)
    \/ \E c \in Conns : BeginClose(c)
    \/ \E c \in Conns : CloseDashboard(c)
    \/ \E c \in Conns : CloseDevice(c)
    \/ \E c \in Conns : ErrorDevice(c)
    \/ \E d \in RegisterIds, v \in VersionIds, f \in SmallFiles :
          Len(transfers) < MaxTransfers /\ AdminPush(d, v, f)

Spec == Init /\ [][Next]_vars

\* The registry and the dispatcher without transfers: one connection more.
NextRegistry ==
    \/ \E c \in Conns : AcceptDashboard(c)
    \/ \E c \in Conns : AcceptDevice(c)
    \/ \E c \in Conns, id \in RegisterIds : now < MaxMsgs /\ HandleRegister(c, id)
    \/ \E c \in Conns : now < MaxMsgs /\ HandleOtaRequest(c, NoFile)
    \/ \E c \in Conns : now < MaxMsgs /\ HandleOtaProgress(c, 50)
    \/ \E c \in Conns : now < MaxMsgs /\ HandleOtaComplete(c)
    \/ \E c \in Conns : now < MaxMsgs /\ HandleOtaError(c, "failed")
    \/ \E c \in Conns : now < MaxMsgs /\ HandleHeartbeat(c)
    \/ \E c \in Conns, kind \in {"unknown", "malformed"} :
          now < MaxMsgs /\ HandleDropped(c, kind)
    \/ \E c \in Conns : BeginClose(c)
    \/ \E c \in Conns : CloseDashboard(c)
    \/ \E c \in Conns : CloseDevice(c)
    \/ \E c \in Conns : ErrorDevice(c)

SpecRegistry == Init /\ [][NextRegistry]_vars

\* The transfer engine driven by ota_request on one device connection, with
\* every artifact size.
NextOta ==
    \/ AcceptDevice(1)
    \/ \E f \in Files :
          /\ now < MaxMsgs
          /\ f.exists => Len(transfers) < MaxTransfers
          /\ HandleOtaRequest(1, f)
    \/ \E t \in 1..Len(transfers) : sendChunk(t)
    \/ BeginClose(1)
    \/ CloseDevice(1)
    \/ ErrorDevice(1)

SpecOta == Init /\ [][NextOta]_vars

\* One device and its pending version: one message more.
NextVersion ==
    \/ AcceptDevice(1)
    \/ \E id \in RegisterIds : now < MaxMsgs + 1 /\ HandleRegister(1, id)
    \/ now < MaxMsgs + 1 /\ HandleOtaComplete(1)
    \/ ResumeOtaComplete(1)
    \/ RejectOtaComplete(1)
    \/ now < MaxMsgs + 1 /\ HandleOtaError(1, "failed")
    \/ \E t \in 1..Len(transfers) : sendChunk(t)
    \/ CloseDevice(1)
    \/ ErrorDevice(1)
    \/ \E d \in RegisterIds, v \in VersionIds, f \in SmallFiles :
          Len(transfers) < MaxTransfers /\ AdminPush(d, v, f)

SpecVersion == Init /\ [][NextVersion]_vars
\* One device that asks for the firmware again while a transfer to it runs:
\* each ota_request starts a sendChunk loop of its own on the same socket.
ReentrantFiles == {[exists |-> TRUE, size |-> k * chunkSize + 1] : k \in 0..MaxChunks}

NextReentrant ==
    \/ AcceptDevice(1)
    \/ \E f \in ReentrantFiles :
          /\ now < MaxMsgs
          /\ Len(transfers) < MaxTransfers + 1
          /\ HandleOtaRequest(1, f)
    \/ \E t \in 1..Len(transfers) : sendChunk(t)
    \/ CloseDevice(1)

SpecReentrant == Init /\ [][NextReentrant]_vars

\* The transfer of SpecOta with timers that fire: a callback handed to
\* setTimeout runs once its delay has passed.
SpecOtaFair ==
    /\ SpecOta
    /\ \A t \in 1..MaxTransfers : WF_vars(t <= Len(transfers) /\ sendChunk(t))

\* ===================================================================== claims
Last(seq) == seq[Len(seq)]

FramesOfType(seq, type) == SelectSeq(seq, LAMBDA m : m.type = type)

HasFrame(seq, type) == \E i \in 1..Len(seq) : seq[i].type = type

RECURSIVE SumBytes(_)
SumBytes(seq) == IF seq = <<>> THEN 0 ELSE seq[1].bytes + SumBytes(Tail(seq))

\* the open members of the observer set
OpenObservers == {o \in dashboardClients : readyState[o] = "OPEN"}

\* C1: the session list holds at most one entry per deviceId; handling
\* register{deviceId = D} on connection c leaves exactly one entry for D, that
\* of c, and replaces an entry D already had instead of adding a second one.
C1_OneEntryPerDeviceId ==
    [][/\ \A i, j \in 1..Len(connectedDevices') :
              connectedDevices'[i].key = connectedDevices'[j].key => i = j
       /\ \A c \in Conns, id \in RegisterIds :
              HandleRegister(c, id) =>
                  /\ Cardinality({i \in 1..Len(connectedDevices') :
                                     connectedDevices'[i].key = id}) = 1
                  /\ \A i \in 1..Len(connectedDevices') :
                         connectedDevices'[i].key = id =>
                             connectedDevices'[i].val.ws = c
                  /\ Len(connectedDevices') =
                         IF \E i \in 1..Len(connectedDevices) :
                                connectedDevices[i].key = id
                         THEN Len(connectedDevices)
                         ELSE Len(connectedDevices) + 1]_vars

\* connections 1 and 2 both registered "d1"; the one entry is that of the later
C1_Witness ==
    /\ deviceId[1] = "d1" /\ deviceId[2] = "d1"
    /\ HasFrame(outbox[1], "registered") /\ HasFrame(outbox[2], "registered")
    /\ Len(connectedDevices) = 1
    /\ connectedDevices[1].key = "d1"
    /\ connectedDevices[1].val.ws = 2
    /\ connectedDevices[1].val.connectedAt = 2

\* C2: when a device connection that registered under deviceId D (an entry
\* for D made by it is in the list) is closed, the entry for D is removed and
\* every observer open at that moment gets exactly one device_disconnected{D}.
C2_CloseRemovesAndNotifies ==
    [][\A c \in Conns :
           CloseDevice(c) =>
               \A i \in 1..Len(connectedDevices) :
                   (connectedDevices[i].val.ws = c
                        /\ connectedDevices[i].key \in DeviceIds) =>
                       /\ \A j \in 1..Len(connectedDevices') :
                              connectedDevices'[j].key # connectedDevices[i].key
                       /\ \A o \in Conns :
                              isDashboard[o] =>
                                  outbox'[o] =
                                      IF o \in OpenObservers
                                      THEN Append(outbox[o],
                                               [type |-> "device_disconnected",
                                                deviceId |-> connectedDevices[i].key])
                                      ELSE outbox[o]]_vars

\* C3: a transfer of S bytes to a connection that stayed open emits
\* ceil(S / chunkSize) ota_chunk frames at offsets 0, chunkSize, 2 * chunkSize,
\* ..., the last one below S, whose data lengths sum to S, and ota_start
\* announced that number of chunks.
C3_ChunkCount ==
    \A t \in 1..Len(transfers) :
        LET tr == transfers[t]
            S == tr.firmwareSize
            chunks == FramesOfType(tr.sent, "ota_chunk")
            n == Len(chunks)
        IN  (tr.ended /\ tr.sent # <<>> /\ Last(tr.sent).type = "ota_end") =>
                /\ n * chunkSize >= S
                /\ n > 0 => (n - 1) * chunkSize < S
                /\ \A i \in 1..n : chunks[i].offset = (i - 1) * chunkSize
                /\ n > 0 => chunks[n].offset < S
                /\ SumBytes(chunks) = S
                /\ tr.sent[1].type = "ota_start"
                /\ tr.sent[1].chunks = n

\* a finished transfer of 2049 bytes: two chunks, then ota_end
C3_Witness ==
    \E t \in 1..Len(transfers) :
        /\ transfers[t].firmwareSize = chunkSize + 1
        /\ transfers[t].ended
        /\ Len(transfers[t].sent) = 4
        /\ transfers[t].sent[3].bytes = 1
        /\ transfers[t].sent[4].type = "ota_end"

\* the session of connection c's deviceId holds a pending version
C4_Pending(c) ==
    \E i \in 1..Len(connectedDevices) :
        /\ connectedDevices[i].key = deviceId[c]
        /\ connectedDevices[i].val.currentVersionId \in VersionIds

\* C4: an ota_complete on a connection registered as D whose stored session has
\* the pending version V invokes the persistence collaborator exactly once, with
\* (D, V); without a pending version or without a session it is not invoked, and
\* the rest of the handler (after the await) does not invoke it again.
C4_PersistOnce ==
    [][\A c \in Conns :
           /\ HandleOtaComplete(c) =>
                  IF C4_Pending(c)
                  THEN \E i \in 1..Len(connectedDevices) :
                           /\ connectedDevices[i].key = deviceId[c]
                           /\ dbCalls' = Append(dbCalls,
                                  [deviceId |-> deviceId[c],
                                   versionId |->
                                       connectedDevices[i].val.currentVersionId])
                  ELSE dbCalls' = dbCalls
           /\ (ResumeOtaComplete(c) \/ RejectOtaComplete(c)) => dbCalls' = dbCalls]_vars

\* "d1" completed its pending "v1": one call, and the handler has acknowledged
C4_Witness ==
    /\ dbCalls = <<[deviceId |-> "d1", versionId |-> "v1"]>>
    /\ \E c \in Conns :
           /\ deviceId[c] = "d1"
           /\ awaiting[c] = 0
           /\ HasFrame(outbox[c], "ota_ack")

\* C5: the persistence collaborator is invoked only in a step that handles an
\* ota_complete whose session has a pending version; no other task invokes it.
C5_PersistOnlyOnComplete ==
    [][dbCalls' # dbCalls =>
           \E c \in Conns : HandleOtaComplete(c) /\ C4_Pending(c)]_vars

\* a device with the pending version "v1" reported ota_error: observers were
\* told, nothing was persisted
C5_Witness ==
    /\ dbCalls = <<>>
    /\ \E i \in 1..Len(connectedDevices) :
           /\ connectedDevices[i].val.currentVersionId = "v1"
           /\ \E o \in Conns :
                  \E k \in 1..Len(outbox[o]) :
                      /\ outbox[o][k].type = "ota_result"
                      /\ outbox[o][k].status = "fail"
                      /\ outbox[o][k].deviceId = connectedDevices[i].key

\* C6: a broadcast writes its event to exactly the members of the observer set
\* that are open: in every step a dashboard accepted earlier either gets nothing
\* or is an open member and every open member gets the same one frame; a
\* register is broadcast to every open member without any send on a socket that
\* is not open; and a step that broadcasts leaves the observer set as it was.
C6_BroadcastToOpenObservers ==
    [][/\ \A o \in Conns :
              (isDashboard[o] /\ readyState[o] # "NONE") =>
                  \/ outbox'[o] = outbox[o]
                  \/ /\ o \in OpenObservers
                     /\ Len(outbox'[o]) = Len(outbox[o]) + 1
                     /\ dashboardClients' = dashboardClients
                     /\ \A p \in Conns :
                            (isDashboard[p] /\ readyState[p] # "NONE") =>
                                outbox'[p] =
                                    IF p \in OpenObservers
                                    THEN Append(outbox[p], Last(outbox'[o]))
                                    ELSE outbox[p]
       /\ \A c \in Conns, id \in RegisterIds :
              HandleRegister(c, id) =>
                  /\ closedSends' = closedSends
                  /\ \A o \in OpenObservers :
                         /\ Len(outbox'[o]) = Len(outbox[o]) + 1
                         /\ Last(outbox'[o]).type = "device_connected"
                         /\ Last(outbox'[o]).deviceId = id]_vars

\* dashboard 1 is still a member but closing and got nothing after its snapshot;
\* dashboard 2, open, got the device_connected of device 3
C6_Witness ==
    /\ 1 \in dashboardClients /\ readyState[1] = "CLOSING"
    /\ Len(outbox[1]) = 1
    /\ 2 \in dashboardClients /\ readyState[2] = "OPEN"
    /\ Len(outbox[2]) = 2
    /\ outbox[2][2].type = "device_connected"
    /\ outbox[2][2].deviceId = deviceId[3]

\* C7: an ota_request with the artifact absent sends the requester exactly one
\* ota_error and nothing else, sends no observer anything, starts no transfer and
\* leaves the session store and the connection's registration as they were.
C7_MissingArtifact ==
    [][\A c \in Conns :
           HandleOtaRequest(c, NoFile) =>
               /\ Len(outbox'[c]) = Len(outbox[c]) + 1
               /\ Last(outbox'[c]).type = "ota_error"
               /\ \A k \in 1..Len(outbox[c]) : outbox'[c][k] = outbox[c][k]
               /\ \A o \in Conns \ {c} : outbox'[o] = outbox[o]
               /\ transfers' = transfers
               /\ connectedDevices' = connectedDevices
               /\ deviceId' = deviceId
               /\ readyState' = readyState]_vars

\* a registered device asked for a missing artifact: it got ota_error, it is
\* still registered, and the open dashboard heard nothing of it
C7_Witness ==
    \E c, o \in Conns :
        /\ Len(outbox[c]) = 2
        /\ outbox[c][1].type = "registered"
        /\ outbox[c][2].type = "ota_error"
        /\ Len(connectedDevices) = 1
        /\ connectedDevices[1].val.ws = c
        /\ readyState[c] = "OPEN"
        /\ o \in OpenObservers
        /\ Len(outbox[o]) = 2
        /\ outbox[o][2].type = "device_connected"

\* C8: while a device connection has sent no register message, its ota_request,
\* ota_progress, ota_complete and ota_error are ignored: nothing is sent to
\* anyone, no transfer starts, no session changes.
C8_UnregisteredIgnored ==
    [][\A c \in Conns :
           (/\ deviceId[c] = Null
            /\ \/ \E f \in Files : HandleOtaRequest(c, f)
               \/ HandleOtaProgress(c, 50)
               \/ HandleOtaComplete(c)
               \/ HandleOtaError(c, "failed")) =>
               /\ outbox' = outbox
               /\ transfers' = transfers
               /\ connectedDevices' = connectedDevices]_vars

\* C9: a register message without deviceId, or a frame that does not parse, is
\* dropped: no session is created or overwritten, nothing is sent to the sender
\* or to observers, and the connection stays as it was.
C9_MalformedDropped ==
    [][\A c \in Conns :
           (HandleRegister(c, Undefined) \/ HandleDropped(c, "malformed")) =>
               /\ connectedDevices' = connectedDevices
               /\ outbox' = outbox
               /\ deviceId' = deviceId
               /\ readyState' = readyState]_vars

\* C10: an error event on the connection of a device registered as D does what
\* a close does: the session of D is removed and device_disconnected{D} is
\* written to the open observers.
C10_ErrorCleansUpLikeClose ==
    [][\A c \in Conns :
           (ErrorDevice(c) /\ Truthy(deviceId[c])) =>
               /\ \A j \in 1..Len(connectedDevices') :
                      connectedDevices'[j].key # deviceId[c]
               /\ \A o \in OpenObservers :
                      outbox'[o] = Append(outbox[o],
                                          [type |-> "device_disconnected",
                                           deviceId |-> deviceId[c]])]_vars

\* C11: a heartbeat from a device connection that has not registered (deviceId
\* still null) is answered with exactly one heartbeat_ack to the sender, reaches
\* no other connection, and leaves every session of the store as it was.
C11_UnregisteredHeartbeat ==
    [][\A c \in Conns :
           (HandleHeartbeat(c) /\ deviceId[c] = Null) =>
               /\ outbox'[c] = Append(outbox[c], [type |-> "heartbeat_ack"])
               /\ \A o \in Conns \ {c} : outbox'[o] = outbox[o]
               /\ connectedDevices' = connectedDevices
               /\ closedSends' = closedSends
               /\ readyState'[c] = "OPEN"]_vars

\* an unregistered device got its heartbeat_ack while another device's session
\* is in the store, still without a lastHeartbeat
C11_Witness ==
    \E c \in Conns :
        /\ deviceId[c] = Null
        /\ outbox[c] = <<[type |-> "heartbeat_ack"]>>
        /\ Len(connectedDevices) = 1
        /\ connectedDevices[1].val.ws # c
        /\ connectedDevices[1].val.lastHeartbeat = NoTime

\* C12: accepting an observer adds it to the observer set and sends it one
\* device_list with one summary per session of the store at that moment, in
\* the store's order; that frame is the first one an observer ever gets, and
\* it gets no second device_list.
C12_SnapshotFirst ==
    [][/\ \A c \in Conns :
              AcceptDashboard(c) =>
                  /\ c \in dashboardClients'
                  /\ Len(outbox'[c]) = 1
                  /\ outbox'[c][1].type = "device_list"
                  /\ Len(outbox'[c][1].devices) = Len(connectedDevices)
                  /\ \A i \in 1..Len(connectedDevices) :
                         /\ outbox'[c][1].devices[i].deviceId =
                                connectedDevices[i].key
                         /\ outbox'[c][1].devices[i].ip =
                                connectedDevices[i].val.ip
                         /\ outbox'[c][1].devices[i].status =
                                connectedDevices[i].val.status
                         /\ outbox'[c][1].devices[i].connectedAt =
                                connectedDevices[i].val.connectedAt
       /\ \A o \in Conns :
              (isDashboard'[o] /\ outbox'[o] # <<>>) =>
                  /\ outbox'[o][1].type = "device_list"
                  /\ \A k \in 2..Len(outbox'[o]) :
                         outbox'[o][k].type # "device_list"]_vars

\* an observer accepted after a closed device left a session behind and an open
\* one registered: its snapshot lists both
C12_Witness ==
    \E o \in Conns :
        /\ isDashboard[o]
        /\ Len(outbox[o]) = 1
        /\ outbox[o][1].type = "device_list"
        /\ Len(outbox[o][1].devices) = 2
        /\ Len(connectedDevices) = 2
        /\ \E i \in 1..2 : readyState[connectedDevices[i].val.ws] # "OPEN"

\* C13: a task resumed by a pacing timer or by the persistence call sends on the
\* device connection only if it is still open: no ota_chunk, ota_end or ota_ack
\* send is ever attempted on a connection that is not open.
C13_NoSendAfterClose ==
    \A c \in Conns :
        \A ty \in {"ota_chunk", "ota_end", "ota_ack"} : <<c, ty>> \notin closedSends

\* C14: as stated, every transfer has 0 <= offset <= totalSize at all times,
\* whatever the artifact size.
C14_OffsetWithinSize ==
    \A t \in 1..Len(transfers) :
        /\ 0 <= transfers[t].offset
        /\ transfers[t].offset <= transfers[t].firmwareSize

\* C14: amended: offset is a multiple of the chunk size with
\* 0 <= offset < totalSize + chunkSize (it passes totalSize by up to
\* chunkSize - 1 when the size is not a multiple of the chunk size); ota_end is
\* sent only with offset >= totalSize, and a transfer with offset >= totalSize
\* has sent ota_end or has its last timer pending.
C14_OffsetBound ==
    \A t \in 1..Len(transfers) :
        LET tr == transfers[t] IN
        /\ 0 <= tr.offset
        /\ tr.offset < tr.firmwareSize + chunkSize
        /\ tr.offset % chunkSize = 0
        /\ tr.ended => tr.offset >= tr.firmwareSize
        /\ tr.offset >= tr.firmwareSize => (tr.ended \/ tr.timer)
        /\ tr.offset < tr.firmwareSize => ~tr.ended

\* a finished transfer of an artifact one byte longer than a chunk: the offset
\* ended past the size
C14_Witness ==
    \E t \in 1..Len(transfers) :
        /\ transfers[t].firmwareSize = chunkSize + 1
        /\ transfers[t].offset = 2 * chunkSize
        /\ transfers[t].ended
        /\ IsOpen(transfers[t].ws)

\* C15: every session in the store belongs to a connection whose close event
\* has not been handled.
C15_SessionsOfOpenConnections ==
    \A i \in 1..Len(connectedDevices) :
        readyState[connectedDevices[i].val.ws] # "CLOSED"

\* C16: when the close or error event of connection a is handled, the session
\* of every other connection that is open and is the registrant of its key
\* stays in the store, and no device_disconnected for that key is broadcast.
C16_CloseKeepsOverwriterSession ==
    [][\A a \in Conns :
           (CloseDevice(a) \/ ErrorDevice(a)) =>
               \A i \in 1..Len(connectedDevices) :
                   LET e == connectedDevices[i] IN
                   (e.val.ws # a /\ IsOpen(e.val.ws) /\ deviceId[e.val.ws] = e.key) =>
                       /\ MapHas(connectedDevices', e.key)
                       /\ \A o \in Conns :
                              outbox'[o] # Append(outbox[o],
                                  [type |-> "device_disconnected",
                                   deviceId |-> e.key])]_vars

\* C17: the frames one transfer writes to its connection are ordered: one
\* ota_start first, then ota_chunk frames with increasing offsets, then at most
\* one ota_end, which is the last frame and comes only after the chunk that
\* holds the last byte; a transfer that stayed open to its end has that ota_end,
\* and a transfer abandoned on a closed connection has none and never ran the
\* ota_end send.
C17_TransferOrder ==
    \A t \in 1..Len(transfers) :
        LET tr == transfers[t]
            s == tr.sent
            S == tr.firmwareSize
        IN  /\ s # <<>> =>
                  /\ s[1].type = "ota_start"
                  /\ \A k \in 2..Len(s) : s[k].type \in {"ota_chunk", "ota_end"}
            /\ \A i, j \in 1..Len(s) :
                  (i < j /\ s[i].type = "ota_chunk" /\ s[j].type = "ota_chunk") =>
                      s[i].offset < s[j].offset
            /\ \A k \in 1..Len(s) :
                  s[k].type = "ota_end" =>
                      /\ k = Len(s)
                      /\ tr.ended
                      /\ SumBytes(FramesOfType(s, "ota_chunk")) = S
                      /\ S > 0 => /\ k > 2
                                  /\ s[k - 1].type = "ota_chunk"
                                  /\ s[k - 1].offset + s[k - 1].bytes = S
            /\ (tr.ended /\ IsOpen(tr.ws)) => Last(s).type = "ota_end"
            /\ (~tr.timer /\ ~tr.ended) =>
                  /\ ~IsOpen(tr.ws)
                  /\ ~HasFrame(s, "ota_end")
                  /\ Len(transfers) = 1 => <<tr.ws, "ota_end">> \notin closedSends

\* one transfer of two full chunks and one byte ran to its ota_end on an open
\* connection
C17_Witness ==
    \E t \in 1..Len(transfers) :
        /\ transfers[t].firmwareSize = 2 * chunkSize + 1
        /\ IsOpen(transfers[t].ws)
        /\ Len(transfers[t].sent) = 5
        /\ transfers[t].sent[5].type = "ota_end"
        /\ outbox[transfers[t].ws] = transfers[t].sent

\* C18: among the frames a device connection receives, two ota_chunk frames
\* with no ota_chunk and no ota_end between them have offsets one chunk size
\* apart, also when the device asked for the firmware again during a transfer.
C18_NoInterleaving ==
    \A c \in Conns :
        \A i, j \in 1..Len(outbox[c]) :
            (/\ i < j
             /\ outbox[c][i].type = "ota_chunk"
             /\ outbox[c][j].type = "ota_chunk"
             /\ \A k \in (i + 1)..(j - 1) :
                    outbox[c][k].type \notin {"ota_chunk", "ota_end"}) =>
                outbox[c][j].offset = outbox[c][i].offset + chunkSize

\* C19: a session's pending version is used for one persistence call: the
\* calls made never outnumber the pushes that set a pending version.
C19_PendingClearedOnComplete ==
    Len(dbCalls) <= Len(transfers)

\* C20: with timers that fire, a transfer sends at most ceil(S / chunkSize)
\* chunks, and every started transfer reaches a state with no timer pending,
\* having run its ota_end send or found its connection not open.
C20_TransfersTerminate ==
    /\ [](\A t \in 1..Len(transfers) :
              Len(FramesOfType(transfers[t].sent, "ota_chunk")) <=
                  Ceil(transfers[t].firmwareSize, chunkSize))
    /\ \A t \in 1..MaxTransfers :
           (t <= Len(transfers)) ~>
               (/\ t <= Len(transfers)
                /\ ~transfers[t].timer
                /\ transfers[t].ended \/ ~IsOpen(transfers[t].ws))

\* a transfer of two chunks stopped after the first: the connection closed
\* and the timer that found it closed armed no other
C20_Witness ==
    \E t \in 1..Len(transfers) :
        /\ transfers[t].firmwareSize = 2 * chunkSize
        /\ transfers[t].offset = chunkSize
        /\ ~transfers[t].timer
        /\ ~transfers[t].ended
        /\ readyState[transfers[t].ws] = "CLOSED"
=============================================================================
